---- MODULE Spec2Model ----
(***************************************************************************)
(* A model of the filter query-string parser (src/src/helpers/parser.ts).  *)
(*                                                                         *)
(* Strings are sequences of one-character strings, so that the scanner can *)
(* be modelled character by character: "s:f" is <<"s", ":", "f">>.         *)
(* An array of characters joined with '' (this.stack.join('')) is the same *)
(* sequence.  A JavaScript `undefined` is the sentinel Undefined, which no *)
(* input can spell because every input character has length one.           *)
(***************************************************************************)
EXTENDS Integers, Sequences, FiniteSets, TLC

VARIABLES
    str,      \* extract's argument `str`
    args,     \* extract's argument `options` (NoOptions when omitted)
    ctor,     \* the argument that was given to the constructor
    opts,     \* this.opts.allowedKeys
    buffer,   \* this.buffer: the output list under construction
    filter,   \* this.filter: the header of the clause being read
    stack,    \* this.stack: the characters accumulated so far
    chr,      \* this.chr: the character being examined
    escaped,  \* this.escaped
    i,        \* the loop counter of extract (characters consumed)
    pc,       \* "idle" | "scan" | "done" | "error": where the caller stands
    err,      \* the Error thrown by the running call, NoError otherwise
    ret,      \* what the last call delivered to its caller
    calls,    \* number of extract calls made on this instance
    given,    \* the structure the current input string was rendered from
    first     \* outcome of the first call made on this instance

vars == <<str, args, ctor, opts, buffer, filter, stack, chr, escaped, i, pc,
          err, ret, calls, given, first>>

-----------------------------------------------------------------------------
(* JavaScript values *)

Undefined == <<"undefined">>

Falsy(x) == x = Undefined \/ x = <<>>

Truthy(x) == ~Falsy(x)

\* One element of a descriptor's value.  A scalar value is a one-element list
\* (shape "scalar"), an array value is the list itself (shape "list").
StrV(s)  == [t |-> "string",  s |-> s,    n |-> 0]
NumV(n)  == [t |-> "number",  s |-> <<>>, n |-> n]
BoolV(b) == [t |-> "boolean", s |-> <<>>, n |-> IF b THEN 1 ELSE 0]
NullV    == [t |-> "null",    s |-> <<>>, n |-> 0]

\* The result of a numeric conversion: NaN, or the number n.
NaN    == [nan |-> TRUE,  n |-> 0]
Num(n) == [nan |-> FALSE, n |-> n]

isNaN(x) == x.nan

-----------------------------------------------------------------------------
(* Registries *)

\* enum Operator
Op_gt         == <<">">>
Op_gte        == <<">", "=">>
Op_eq         == <<"=">>
Op_ne         == <<"!", "=">>
Op_is         == <<"!", "!">>
Op_isNot      == <<"!">>
Op_lt         == <<"<">>
Op_lte        == <<"<", "=">>
Op_regex      == <<"~">>
Op_notRegex   == <<"!", "~">>
Op_between    == <<">", "<">>
Op_notBetween == <<">", "!", "<">>
Op_in         == <<"<", ">">>
Op_notIn      == <<"<", "!", ">">>

Operator == {Op_gt, Op_gte, Op_eq, Op_ne, Op_is, Op_isNot, Op_lt, Op_lte,
             Op_regex, Op_notRegex, Op_between, Op_notBetween, Op_in, Op_notIn}

\* enum DataType
DT_string  == <<"s">>
DT_boolean == <<"b">>
DT_number  == <<"n">>
DT_date    == <<"d">>
DT_void    == <<"v">>

DataType == {DT_string, DT_boolean, DT_number, DT_date, DT_void}

\* Object.values(Operator).find(operator => operator === target)
getFilterOperator(target) == IF target \in Operator THEN target ELSE Undefined

\* Object.values(DataType).find(type => type === target)
getFilterType(target) == IF target \in DataType THEN target ELSE Undefined

isRangeTypeOperator(op) == op = Op_between \/ op = Op_notBetween

hasOneOfRangeTypeOperator(op) ==
    op \in {Op_eq, Op_ne, Op_gt, Op_gte, Op_lt, Op_lte, Op_in, Op_notIn}

forStringTypeOperator(target) ==
    target \in {Op_eq, Op_ne, Op_in, Op_notIn, Op_regex, Op_notRegex}

\* ParserOptions.  allowedKeys is used through includes() only, so it is a set.
Wildcard == <<"*">>

NoOptions == [has |-> FALSE, allowedKeys |-> {}]

Options(keys) == [has |-> TRUE, allowedKeys |-> keys]

defaults == {Wildcard}

\* { ...this.defaults, ...options }
MergeOptions(options) == IF options.has THEN options.allowedKeys ELSE defaults

\* The constructor drops its argument: this.opts = { ...this.defaults }
ConstructorOptions(options) == defaults

isValidKey(allowed, target) == Wildcard \in allowed \/ target \in allowed

-----------------------------------------------------------------------------
(* Library functions *)

RECURSIVE SplitFrom(_, _, _)
\* The pieces of s after `cur` has been read into the current piece.
SplitFrom(s, d, cur) ==
    IF s = <<>> THEN <<cur>>
    ELSE IF Head(s) = d THEN <<cur>> \o SplitFrom(Tail(s), d, <<>>)
    ELSE SplitFrom(Tail(s), d, Append(cur, Head(s)))

\* Mutant of split: the separator is always the comma, as in the legacy
\* parser's number and date branches.
splitOnComma(s, delimiter) == SplitFrom(s, ",", <<>>)

\* String.prototype.split with a one-character or an undefined separator
split(s, delimiter) ==
    IF delimiter = Undefined THEN <<s>> ELSE SplitFrom(s, delimiter[1], <<>>)

Digits == <<"0", "1", "2", "3", "4", "5", "6", "7", "8", "9">>

IsDigit(c) == \E k \in 1..10 : Digits[k] = c

DigitVal(c) == (CHOOSE k \in 1..10 : Digits[k] = c) - 1

RECURSIVE Decimal(_, _)
Decimal(s, acc) ==
    IF s = <<>> THEN acc ELSE Decimal(Tail(s), 10 * acc + DigitVal(Head(s)))

AllDigits(s) == \A k \in 1..Len(s) : IsDigit(s[k])

IsBlank(s) == \A k \in 1..Len(s) : s[k] = " "

\* Unary plus on a string, for the strings of the model's alphabet: a blank
\* string is 0, an unsigned decimal numeral is its value, anything else NaN.
ToNumber(s) ==
    IF IsBlank(s) THEN Num(0)
    ELSE IF AllDigits(s) THEN Num(Decimal(s, 0))
    ELSE NaN

LeapsBefore(y) == ((y - 1) \div 4) - ((y - 1) \div 100) + ((y - 1) \div 400)

\* Date.parse on the ISO year form YYYY: the instant of 1 January of that
\* year, counted here in days since the epoch.  A string without a digit is
\* not a date.  Numerals of other lengths are read by fallbacks that differ
\* between engines, and no input of the model writes a date that way.
DateParse(s) ==
    IF Len(s) = 4 /\ AllDigits(s)
    THEN LET y == Decimal(s, 0)
         IN Num(365 * (y - 1970) + LeapsBefore(y) - LeapsBefore(1970))
    ELSE NaN

Lit_true      == <<"t", "r", "u", "e">>
Lit_false     == <<"f", "a", "l", "s", "e">>
Lit_null      == <<"n", "u", "l", "l">>
Lit_undefined == <<"u", "n", "d", "e", "f", "i", "n", "e", "d">>

-----------------------------------------------------------------------------
(* Errors and results *)

NoError == [kind |-> "none", arg |-> Undefined, n |-> 0]

Error(kind, arg, n) == [kind |-> kind, arg |-> arg, n |-> n]

NoDescriptor ==
    [type |-> Undefined, field |-> Undefined, operator |-> Undefined,
     multi |-> FALSE, delimiter |-> Undefined, shape |-> "none", value |-> <<>>]

Ok(d) == [ok |-> TRUE, d |-> d, err |-> NoError]

Fail(kind, arg, n) == [ok |-> FALSE, d |-> NoDescriptor, err |-> Error(kind, arg, n)]

\* { ...filter, value } with the value left as the raw string
Raw(f) ==
    [type |-> f.type, field |-> f.field, operator |-> f.operator,
     multi |-> f.multi, delimiter |-> f.delimiter,
     shape |-> "scalar", value |-> <<StrV(f.value)>>]

Scalar(f, v) == [Raw(f) EXCEPT !.value = <<v>>]

List(f, vs) == [Raw(f) EXCEPT !.shape = "list", !.value = vs]

NumVOf(x) == NumV(x.n)

\* .map((num) => +num)
ToNumbers(tokens) == [k \in 1..Len(tokens) |-> ToNumber(tokens[k])]

\* .map((date) => Date.parse(date))
DateParses(tokens) == [k \in 1..Len(tokens) |-> DateParse(tokens[k])]

\* value: nums, value: dates
NumVs(xs) == [k \in 1..Len(xs) |-> NumVOf(xs[k])]

\* value: filter.value.split(filter.delimiter)
StrVs(tokens) == [k \in 1..Len(tokens) |-> StrV(tokens[k])]

-----------------------------------------------------------------------------
(* Parser.transform *)

\* The number branch of transform
transformNumber(f) ==
    LET nums == ToNumbers(split(f.value, f.delimiter))
    IN  IF \E k \in 1..Len(nums) : isNaN(nums[k])
        THEN Fail("InvalidValueTypes", Undefined, 0)
        ELSE IF ~f.multi
        THEN IF Len(nums) # 1
             THEN Fail("ExpectingOne", Undefined, Len(nums))
             ELSE Ok(Scalar(f, NumVOf(nums[Len(nums)])))
        ELSE IF isRangeTypeOperator(f.operator) /\ Len(nums) # 2
        THEN Fail("WrongNumberOfArguments", Undefined, Len(nums))
        ELSE IF ~isRangeTypeOperator(f.operator)
                /\ ~hasOneOfRangeTypeOperator(f.operator)
        THEN Fail("InvalidOperatorForKey", f.operator, 0)
        ELSE Ok(List(f, NumVs(nums)))

\* The date branch of transform.  A scalar date is returned as the filter
\* itself, with its raw string value.
transformDate(f) ==
    LET dates == DateParses(split(f.value, f.delimiter))
    IN  IF \E k \in 1..Len(dates) : isNaN(dates[k])
        THEN Fail("InvalidValueTypes", Undefined, 0)
        ELSE IF ~f.multi
        THEN IF Len(dates) # 1
             THEN Fail("ExpectingOne", Undefined, Len(dates))
             ELSE Ok(Raw(f))
        ELSE IF isRangeTypeOperator(f.operator) /\ Len(dates) # 2
        THEN Fail("WrongNumberOfArguments", Undefined, Len(dates))
        ELSE IF ~isRangeTypeOperator(f.operator)
                /\ ~hasOneOfRangeTypeOperator(f.operator)
        THEN Fail("InvalidOperatorForKey", f.operator, 0)
        ELSE Ok(List(f, NumVs(dates)))

transformString(f) ==
    IF ~forStringTypeOperator(f.operator)
    THEN Fail("UnexpectedStringOperator", f.operator, 0)
    ELSE IF f.multi
    THEN Ok(List(f, StrVs(split(f.value, f.delimiter))))
    ELSE Ok(Raw(f))

\* Mutant of transformBoolean: the operator is not checked.
transformBooleanAnyOperator(f) ==
    IF f.value # Lit_true /\ f.value # Lit_false
    THEN Fail("UnexpectedBooleanValue", f.value, 0)
    ELSE Ok(Scalar(f, BoolV(f.value = Lit_true)))

transformBoolean(f) ==
    IF f.operator # Op_eq /\ f.operator # Op_ne
    THEN Fail("UnexpectedBooleanOperator", f.operator, 0)
    ELSE IF f.value # Lit_true /\ f.value # Lit_false
    THEN Fail("UnexpectedBooleanValue", f.value, 0)
    ELSE Ok(Scalar(f, BoolV(f.value = Lit_true)))

\* JSON.parse('null') is null; JSON.parse('undefined') throws a SyntaxError.
transformVoid(f) ==
    IF f.operator # Op_is /\ f.operator # Op_isNot
    THEN Fail("UnexpectedVoidOperator", f.value, 0)
    ELSE IF f.value # Lit_null /\ f.value # Lit_undefined
    THEN Fail("UnexpectedVoidValue", f.value, 0)
    ELSE IF f.value = Lit_undefined
    THEN Fail("JsonSyntaxError", f.value, 0)
    ELSE Ok(Scalar(f, NullV))

\* transform(filter): f is { ...this.filter, delimiter?, value }
transform(f) ==
    IF f.type = DT_string THEN transformString(f)
    ELSE IF f.type = DT_boolean THEN transformBoolean(f)
    ELSE IF f.type = DT_number THEN transformNumber(f)
    ELSE IF f.type = DT_date THEN transformDate(f)
    ELSE IF f.type = DT_void THEN transformVoid(f)
    ELSE Ok(Raw(f))

-----------------------------------------------------------------------------
(* Parser state *)

\* this.filter = {}
EmptyFilter ==
    [type |-> Undefined, field |-> Undefined, operator |-> Undefined,
     multi |-> FALSE]

\* { ...this.filter, delimiter, value: this.stack.join('') }
WithValue(flt, delimiter, value) ==
    [type |-> flt.type, field |-> flt.field, operator |-> flt.operator,
     multi |-> flt.multi, delimiter |-> delimiter, value |-> value]

NoReturn == [has |-> FALSE, list |-> <<>>]

Returned(list) == [has |-> TRUE, list |-> list]

\* The instance fields that a call never changes while it scans
Frame == UNCHANGED <<str, args, ctor, opts, calls, given>>

\* Mutant of reset: the escaped flag is left as it is.
resetKeepsEscaped ==
    /\ filter' = EmptyFilter
    /\ escaped' = escaped
    /\ chr' = ""
    /\ stack' = <<>>

\* reset()
reset ==
    /\ filter' = EmptyFilter
    /\ escaped' = FALSE
    /\ chr' = ""
    /\ stack' = <<>>

\* What a finished call is remembered by
Outcome(p, e, r) == [pc |-> p, err |-> e, ret |-> r]

\* The first call's input and outcome are remembered when it ends.
Remember(p, e, r) ==
    IF calls = 1
    THEN [set |-> TRUE, str |-> str, args |-> args, outcome |-> Outcome(p, e, r)]
    ELSE first

\* Mutant of Throw: the error is caught inside extract, which returns the
\* descriptors built so far.
ThrowReturnsPartial(e) ==
    /\ pc' = "done"
    /\ err' = e
    /\ ret' = Returned(buffer)
    /\ i' = i
    /\ first' = Remember("done", e, Returned(buffer))

\* throw new Error(...): the loop stops where it stands and the caller gets
\* the error instead of a list.
Throw(e) ==
    /\ pc' = "error"
    /\ err' = e
    /\ ret' = NoReturn
    /\ i' = i
    /\ first' = Remember("error", e, NoReturn)

\* The loop goes on to the next character.
Continue ==
    /\ i' = i + 1
    /\ UNCHANGED <<pc, err, ret, first>>

Scanning(c) == pc = "scan" /\ i < Len(str) /\ str[i + 1] = c

\* this.buffer.push(this.transform({...this.filter, delimiter, value})) and
\* the reset() that follows it in the loop
PushAndReset(delimiter) ==
    LET r == transform(WithValue(filter, delimiter, stack))
    IN  IF r.ok
        THEN /\ buffer' = Append(buffer, r.d)
             /\ reset
             /\ Continue
        ELSE /\ Throw(r.err)
             /\ chr' = str[i + 1]
             /\ UNCHANGED <<buffer, filter, escaped, stack>>

-----------------------------------------------------------------------------
(* Parser.extract: one action per branch of the character loop *)

\* chr === ':'
ScanColon ==
    /\ Scanning(":")
    /\ chr' = ":"
    /\ Frame
    /\ UNCHANGED buffer
    /\ IF escaped
       THEN /\ stack' = Append(stack, ":")
            /\ escaped' = FALSE
            /\ UNCHANGED filter
            /\ Continue
       ELSE IF filter.multi
       THEN /\ Throw(Error("UnbalancedGroup", Undefined, 0))
            /\ UNCHANGED <<filter, stack, escaped>>
       ELSE IF Falsy(filter.type)
       THEN LET t == getFilterType(stack)
            IN  /\ filter' = [filter EXCEPT !.type = t]
                /\ UNCHANGED escaped
                /\ IF Falsy(t)
                   THEN Throw(Error("InvalidType", t, 0)) /\ UNCHANGED stack
                   ELSE stack' = <<>> /\ Continue
       ELSE IF Falsy(filter.field)
       THEN /\ filter' = [filter EXCEPT !.field = stack]
            /\ UNCHANGED escaped
            /\ IF ~isValidKey(opts, stack)
               THEN Throw(Error("KeyNotAllowed", stack, 0)) /\ UNCHANGED stack
               ELSE stack' = <<>> /\ Continue
       ELSE IF Falsy(filter.operator)
       THEN LET o == getFilterOperator(stack)
            IN  /\ filter' = [filter EXCEPT !.operator = o]
                /\ UNCHANGED escaped
                /\ IF Falsy(o)
                   THEN Throw(Error("InvalidOperator", o, 0)) /\ UNCHANGED stack
                   ELSE stack' = <<>> /\ Continue
       ELSE /\ Throw(Error("UnexpectedCharacter", Undefined, 0))
            /\ UNCHANGED <<filter, stack, escaped>>

\* Mutant of ScanSeparator: a separator that finalises nothing is appended
\* to the buffer outside a group as well as inside one.
ScanSeparatorAppendsAnywhere ==
    /\ \E c \in {"|", ","} : Scanning(c)
    /\ Frame
    /\ IF escaped
       THEN /\ Throw(Error("InvalidEscapedCharacter", <<str[i + 1]>>, 0))
            /\ chr' = str[i + 1]
            /\ UNCHANGED <<buffer, filter, stack, escaped>>
       ELSE IF stack # <<>> /\ ~filter.multi
       THEN IF Truthy(filter.type) /\ Truthy(filter.field)
               /\ Falsy(filter.operator)
            THEN /\ Throw(Error("MissingOperator", filter.type, 0))
                 /\ chr' = str[i + 1]
                 /\ UNCHANGED <<buffer, filter, stack, escaped>>
            ELSE PushAndReset(Undefined)
       ELSE /\ chr' = str[i + 1]
            /\ stack' = Append(stack, str[i + 1])
            /\ UNCHANGED <<buffer, filter, escaped>>
            /\ Continue

\* chr === '|' || chr === ','
ScanSeparator ==
    /\ \E c \in {"|", ","} : Scanning(c)
    /\ Frame
    /\ IF escaped
       THEN /\ Throw(Error("InvalidEscapedCharacter", <<str[i + 1]>>, 0))
            /\ chr' = str[i + 1]
            /\ UNCHANGED <<buffer, filter, stack, escaped>>
       ELSE IF stack # <<>> /\ ~filter.multi
       THEN IF Truthy(filter.type) /\ Truthy(filter.field)
               /\ Falsy(filter.operator)
            THEN /\ Throw(Error("MissingOperator", filter.type, 0))
                 /\ chr' = str[i + 1]
                 /\ UNCHANGED <<buffer, filter, stack, escaped>>
            ELSE PushAndReset(Undefined)
       ELSE /\ chr' = str[i + 1]
            /\ stack' = IF filter.multi THEN Append(stack, str[i + 1]) ELSE stack
            /\ UNCHANGED <<buffer, filter, escaped>>
            /\ Continue

\* chr === ']' || chr === ')'
ScanClose ==
    /\ \E c \in {"]", ")"} : Scanning(c)
    /\ Frame
    /\ IF escaped
       THEN /\ Throw(Error("InvalidEscapedCharacter", <<str[i + 1]>>, 0))
            /\ chr' = str[i + 1]
            /\ UNCHANGED <<buffer, filter, stack, escaped>>
       ELSE PushAndReset(IF str[i + 1] = ")" THEN <<"|">> ELSE <<",">>)

\* chr === '[' || chr === '('
ScanOpen ==
    /\ \E c \in {"[", "("} : Scanning(c)
    /\ Frame
    /\ UNCHANGED buffer
    /\ chr' = str[i + 1]
    /\ IF escaped
       THEN /\ Throw(Error("InvalidEscapedCharacter", <<str[i + 1]>>, 0))
            /\ UNCHANGED <<filter, stack, escaped>>
       ELSE /\ filter' = [filter EXCEPT !.multi = TRUE]
            /\ stack' = <<>>
            /\ UNCHANGED escaped
            /\ Continue

\* Mutant of ScanBackslash: the backslash is skipped and the flag not set.
ScanBackslashDropsFlag ==
    /\ Scanning("\\")
    /\ Frame
    /\ chr' = "\\"
    /\ UNCHANGED <<buffer, filter, stack, escaped>>
    /\ Continue

\* chr === '\\'
ScanBackslash ==
    /\ Scanning("\\")
    /\ Frame
    /\ chr' = "\\"
    /\ escaped' = TRUE
    /\ UNCHANGED <<buffer, filter, stack>>
    /\ Continue

Structural == {":", "|", ",", "]", ")", "[", "(", "\\"}

\* any other character: this.stack.push(this.chr)
ScanOther ==
    /\ pc = "scan" /\ i < Len(str) /\ str[i + 1] \notin Structural
    /\ Frame
    /\ chr' = str[i + 1]
    /\ stack' = Append(stack, str[i + 1])
    /\ UNCHANGED <<buffer, filter, escaped>>
    /\ Continue

\* After the loop: the remaining characters of the stack, and the return
Return ==
    /\ pc = "scan" /\ i = Len(str)
    /\ Frame
    /\ UNCHANGED <<filter, stack, chr, escaped>>
    /\ IF stack # <<>> /\ (Truthy(filter.field) \/ Truthy(filter.operator))
       THEN IF filter.multi
            THEN /\ Throw(Error("UnbalancedGroup", Undefined, 0))
                 /\ UNCHANGED buffer
            ELSE LET r == transform(WithValue(filter, Undefined, stack))
                 IN  IF r.ok
                     THEN /\ buffer' = Append(buffer, r.d)
                          /\ pc' = "done"
                          /\ ret' = Returned(buffer')
                          /\ first' = Remember("done", err, ret')
                          /\ UNCHANGED <<err, i>>
                     ELSE /\ Throw(r.err)
                          /\ UNCHANGED buffer
       ELSE /\ pc' = "done"
            /\ ret' = Returned(buffer)
            /\ first' = Remember("done", err, ret')
            /\ UNCHANGED <<buffer, err, i>>

-----------------------------------------------------------------------------
(* Inputs.  An input string is rendered from a list of clauses; a clause is *)
(* its header tokens (each followed by a colon), an optional opening        *)
(* bracket, its elements with the separators written between them, and an   *)
(* optional closing bracket.                                                *)

MaxClauses == 3

MaxElems == 3

MaxCalls == 3

Comma == <<",">>
Pipe  == <<"|">>

RECURSIVE Flatten(_)
Flatten(ss) == IF ss = <<>> THEN <<>> ELSE Head(ss) \o Flatten(Tail(ss))

RECURSIVE Interleave(_, _)
\* xs[1] seps[1] xs[2] seps[2] ... as one string
Interleave(xs, seps) ==
    IF xs = <<>> THEN <<>>
    ELSE IF seps = <<>> THEN Head(xs)
    ELSE Head(xs) \o Head(seps) \o Interleave(Tail(xs), Tail(seps))

HeaderText(hdr) == Flatten([k \in 1..Len(hdr) |-> Append(hdr[k], ":")])

ClauseText(c) ==
    HeaderText(c.hdr) \o c.open \o Interleave(c.els, c.isep) \o c.close

Text(in) == Interleave([k \in 1..Len(in.cl) |-> ClauseText(in.cl[k])], in.sep)

Clause(hdr, open, els, isep, close) ==
    [hdr |-> hdr, open |-> open, els |-> els, isep |-> isep, close |-> close]

ScalarClause(t, f, o, v) == Clause(<<t, f, o>>, <<>>, <<v>>, <<>>, <<>>)

GroupClause(t, f, o, b, body) ==
    Clause(<<t, f, o>>, <<b[1]>>, body.els, body.isep, <<b[2]>>)

Input(cl, sep, a) == [cl |-> cl, sep |-> sep, args |-> a]

One(c) == Input(<<c>>, <<>>, NoOptions)

SeqsUpTo(S, n) == UNION {[1..k -> S] : k \in 1..n}

Uniform(x, n) == [k \in 1..n |-> x]

\* Tokens
F_f == <<"f">>
F_g == <<"g">>
T_z == <<"z">>
O_bad == <<">", ">">>
V_a == <<"a">>
V_b == <<"b">>
V_1 == <<"1">>
V_2 == <<"2">>
V_yes == <<"y", "e", "s">>
V_message_me == <<"m", "e", "s", "s", "a", "g", "e", " ", "m", "e">>
V_2024 == <<"2", "0", "2", "4">>
V_2025 == <<"2", "0", "2", "5">>

AnyType  == DataType \cup {T_z, <<>>}
AnyField == {F_f, F_g, <<>>}
AnyOp    == Operator \cup {O_bad, <<>>}
AnyValue == {V_a, V_1, V_2024, Lit_true, Lit_null, Lit_undefined, V_yes, <<>>}

\* One scalar clause type:field:op:value, every combination of tokens but a
\* date written as a lone numeral that is not a year
ScalarInputs ==
    {One(ScalarClause(t, f, o, v)) :
        t \in AnyType \ {DT_date}, f \in AnyField, o \in AnyOp, v \in AnyValue}
    \cup
    {One(ScalarClause(DT_date, f, o, v)) :
        f \in AnyField, o \in AnyOp, v \in AnyValue \ {V_1}}

SquareBrackets == <<"[", "]">>
RoundBrackets  == <<"(", ")">>
MixedBrackets  == <<"[", ")">>

DelimiterOf(close) == IF close = <<")">> THEN Pipe ELSE Comma

GroupOps == {Op_eq, Op_between, Op_notBetween, Op_in, Op_regex, Op_gt}

\* Group bodies: up to n elements of E, any separators between them
Bodies(E, n) ==
    UNION {{[els |-> e, isep |-> q] : q \in [1..(Len(e) - 1) -> {Comma, Pipe}]} :
           e \in SeqsUpTo(E, n)}

\* Group bodies whose separators are all d
UniformBodies(E, n, d) ==
    {[els |-> e, isep |-> Uniform(d, Len(e) - 1)] : e \in SeqsUpTo(E, n)}

EmptyBody == [els |-> << <<>> >>, isep |-> <<>>]

\* One group of strings or numbers
MixedGroupInputs ==
    {One(GroupClause(t, F_f, o, b, body)) :
        t \in {DT_string, DT_number}, o \in GroupOps,
        b \in {SquareBrackets, RoundBrackets, MixedBrackets},
        body \in Bodies({V_a, V_1}, MaxElems) \cup {EmptyBody}}

\* One group of dates, written with the separator its closing bracket names
DateGroupInputs ==
    {One(GroupClause(DT_date, F_g, o, b, body)) :
        o \in GroupOps, b \in {SquareBrackets},
        body \in UniformBodies({V_2024, V_2025, V_a}, MaxElems, Comma)
                 \cup {EmptyBody}}
    \cup
    {One(GroupClause(DT_date, F_g, o, b, body)) :
        o \in GroupOps, b \in {RoundBrackets},
        body \in UniformBodies({V_2024, V_2025, V_a}, MaxElems, Pipe)}

\* One group of booleans or voids
LiteralGroupInputs ==
    {One(GroupClause(t, F_f, o, b, body)) :
        t \in {DT_boolean, DT_void}, o \in {Op_eq, Op_ne, Op_is, Op_isNot, Op_gt},
        b \in {SquareBrackets, RoundBrackets},
        body \in UniformBodies({Lit_true, Lit_false, Lit_null}, 1, Comma)
                 \cup {EmptyBody,
                       [els |-> <<Lit_true, Lit_false>>, isep |-> <<Comma>>]}}

\* The clauses that lists of clauses are made of
Forms ==
    {ScalarClause(DT_string, F_f, Op_eq, V_a),
     GroupClause(DT_string, F_g, Op_ne, SquareBrackets,
                 [els |-> <<V_a, V_b>>, isep |-> <<Comma>>]),
     GroupClause(DT_number, F_f, Op_between, RoundBrackets,
                 [els |-> <<V_1, V_2>>, isep |-> <<Pipe>>]),
     ScalarClause(DT_boolean, F_g, Op_eq, Lit_true),
     ScalarClause(DT_void, F_f, Op_isNot, Lit_null),
     ScalarClause(DT_void, F_g, Op_is, Lit_undefined)}

\* Lists of clauses joined by a top-level separator
ListInputs ==
    {Input(cl, Uniform(d, Len(cl) - 1), NoOptions) :
        cl \in SeqsUpTo(Forms, MaxClauses), d \in {Comma, Pipe}}

OptionArgs ==
    {NoOptions, Options({Wildcard}), Options({F_f}), Options({F_g}),
     Options({F_f, F_g}), Options({}), Options({F_g, Wildcard})}

\* Lists of clauses parsed under every configuration
WhitelistInputs ==
    {Input(cl, Uniform(Comma, Len(cl) - 1), a) :
        cl \in SeqsUpTo(Forms, 2), a \in OptionArgs}

\* Raw text, for the inputs that are not lists of clauses
RawClause(hdr, text) == Clause(hdr, <<>>, <<text>>, <<>>, <<>>)

SpecialInputs ==
    {One(c) : c \in {
        \* s:f:!~:[message me\:]   and   s:f:=:a\:b
        GroupClause(DT_string, F_f, Op_notRegex, SquareBrackets,
                    [els |-> <<V_message_me \o <<"\\", ":">> >>, isep |-> <<>>]),
        ScalarClause(DT_string, F_f, Op_eq, <<"a", "\\", ":", "b">>),
        \* n:f:=:\:1   and   s:f:=:(\:|a)
        ScalarClause(DT_number, F_f, Op_eq, <<"\\", ":", "1">>),
        GroupClause(DT_string, F_f, Op_eq, RoundBrackets,
                    [els |-> << <<"\\", ":">>, V_a>>, isep |-> <<Pipe>>]),
        \* s:f\:g:=:a   (an escaped colon in the header)
        ScalarClause(DT_string, <<"f", "\\", ":", "g">>, Op_eq, V_a),
        \* abc   s:abc   s:f:a   a]   s:f:=:[   s:f:=:(a   s:f:=:a:b
        RawClause(<<>>, <<"a", "b", "c">>),
        RawClause(<<DT_string>>, <<"a", "b", "c">>),
        RawClause(<<DT_string, F_f>>, V_a),
        RawClause(<<>>, <<"a", "]">>),
        RawClause(<<DT_string, F_f, Op_eq>>, <<"[">>),
        RawClause(<<DT_string, F_f, Op_eq>>, <<"(", "a">>),
        RawClause(<<DT_string, F_f, Op_eq, V_a>>, V_b),
        \* s:f:=:[a:b]   s:f:=:[a\,b]   s:f:=:a\b,
        RawClause(<<DT_string, F_f, Op_eq>>, <<"[", "a", ":", "b", "]">>),
        RawClause(<<DT_string, F_f, Op_eq>>, <<"[", "a", "\\", ",", "b", "]">>),
        RawClause(<<DT_string, F_f, Op_eq>>, <<"a", "\\", "b", ",">>),
        \* s:f:=:\[a]   s:f:=:a\]
        RawClause(<<DT_string, F_f, Op_eq>>, <<"\\", "[", "a", "]">>),
        RawClause(<<DT_string, F_f, Op_eq>>, <<"a", "\\", "]">>),
        \* s:f:=:a\|b   s:f:=:\(a   s:f:=:[a\b,c]   s:f:=:[a\b:c]   s:f:=:\\,
        RawClause(<<DT_string, F_f, Op_eq>>, <<"a", "\\", "|", "b">>),
        RawClause(<<DT_string, F_f, Op_eq>>, <<"\\", "(", "a">>),
        RawClause(<<DT_string, F_f, Op_eq>>,
                  <<"[", "a", "\\", "b", ",", "c", "]">>),
        RawClause(<<DT_string, F_f, Op_eq>>,
                  <<"[", "a", "\\", "b", ":", "c", "]">>),
        RawClause(<<DT_string, F_f, Op_eq>>, <<"\\", "\\", ",">>),
        \* s:f:=:[a,b\,c]
        RawClause(<<DT_string, F_f, Op_eq>>,
                  <<"[", "a", ",", "b", "\\", ",", "c", "]">>),
        \* s:f:=:(a|b:c)   [s:
        RawClause(<<DT_string, F_f, Op_eq>>,
                  <<"(", "a", "|", "b", ":", "c", ")">>),
        RawClause(<<>>, <<"[", "s", ":">>),
        \* s:f:=:a]   n:f:=:1)   [a   (a|b   s:f:=:[a]b
        RawClause(<<DT_string, F_f, Op_eq>>, <<"a", "]">>),
        RawClause(<<DT_number, F_f, Op_eq>>, <<"1", ")">>),
        RawClause(<<>>, <<"[", "a">>),
        RawClause(<<>>, <<"(", "a", "|", "b">>),
        RawClause(<<DT_string, F_f, Op_eq>>, <<"[", "a", "]", "b">>),
        \* s:f:a,b   s:f:a|b   n::1,   n::1|2   s::a,
        RawClause(<<DT_string, F_f>>, <<"a", ",", "b">>),
        RawClause(<<DT_string, F_f>>, <<"a", "|", "b">>),
        RawClause(<<DT_number, <<>> >>, <<"1", ",">>),
        RawClause(<<DT_number, <<>> >>, <<"1", "|", "2">>),
        RawClause(<<DT_string, <<>> >>, <<"a", ",">>),
        \* a,   [a]   s:f:=:[a]b,   n:f:1   n:f:<>:[1,,2]
        RawClause(<<>>, <<"a", ",">>),
        RawClause(<<>>, <<"[", "a", "]">>),
        RawClause(<<DT_string, F_f, Op_eq>>, <<"[", "a", "]", "b", ",">>),
        RawClause(<<DT_number, F_f>>, V_1),
        RawClause(<<DT_number, F_f, Op_in>>,
                  <<"[", "1", ",", ",", "2", "]">>)}}
    \cup
    {Input(<<c, d>>, <<Comma>>, NoOptions) :
        c \in Forms,
        d \in {ScalarClause(T_z, F_f, Op_eq, V_a),
               ScalarClause(DT_string, F_f, O_bad, V_a),
               ScalarClause(DT_number, <<>>, O_bad, V_1),
               ScalarClause(DT_boolean, F_f, Op_eq, V_yes),
               RawClause(<<DT_string, F_f>>, <<"a", ",", "b">>),
               RawClause(<<DT_string, F_f, Op_eq>>, <<"[", "a">>)}}

\* The empty text, standing before a leading separator
NoClause == Clause(<<>>, <<>>, <<>>, <<>>, <<>>)

\* Two clauses with separators before, between and after them: each of
\* lead, mid and trail is a run of top-level separators (lead and trail may
\* be empty), as in ,s:f:=:a,|n:g:><:[1,2],,
SeparatorInputs ==
    {Input(<<NoClause, c, d>>, <<lead, mid, trail>>, NoOptions) :
        c \in {ScalarClause(DT_string, F_f, Op_eq, V_a),
               GroupClause(DT_number, F_g, Op_between, SquareBrackets,
                           [els |-> <<V_1, V_2>>, isep |-> <<Comma>>])},
        d \in {ScalarClause(DT_boolean, F_g, Op_ne, Lit_false),
               GroupClause(DT_string, F_f, Op_in, RoundBrackets,
                           [els |-> <<V_a, V_b>>, isep |-> <<Pipe>>])},
        lead \in {<<>>, <<",">>, <<"|", ",">>},
        mid \in {<<",">>, <<"|">>, <<",", "|">>, <<"|", ",", ",">>},
        trail \in {<<>>, <<"|">>, <<",", ",">>}}

Pool ==
    ScalarInputs \cup MixedGroupInputs \cup DateGroupInputs
    \cup LiteralGroupInputs \cup ListInputs \cup WhitelistInputs
    \cup SpecialInputs \cup SeparatorInputs

\* The inputs given to an instance that is used again and again
ReusePool ==
    {Input(<<c>>, <<>>, a) :
        c \in {ScalarClause(DT_string, F_f, Op_eq, V_a),
               GroupClause(DT_string, F_g, Op_eq, SquareBrackets,
                           [els |-> <<V_a, V_b>>, isep |-> <<Comma>>]),
               \* s:g:=:a,\   leaves escaped set; s:f:=:(a leaves a group open
               RawClause(<<DT_string, F_g, Op_eq>>, <<"a", ",", "\\">>),
               RawClause(<<DT_string, F_f, Op_eq>>, <<"(", "a">>),
               \* s:f:=:a,z:   fails after a descriptor has been built
               RawClause(<<DT_string, F_f, Op_eq>>, <<"a", ",", "z", ":">>)},
        a \in {NoOptions, Options({F_f}), Options({F_f, F_g})}}

CtorArgs == {NoOptions, Options({F_g})}

-----------------------------------------------------------------------------
(* The instance and its calls *)

NoInput == Input(<<>>, <<>>, NoOptions)

NoFirst ==
    [set |-> FALSE, str |-> <<>>, args |-> NoOptions,
     outcome |-> Outcome("idle", NoError, NoReturn)]

\* new Parser(options): the fields before the first call
Constructed(options) ==
    /\ ctor = options
    /\ opts = ConstructorOptions(options)
    /\ buffer = <<>>
    /\ filter = EmptyFilter
    /\ stack = <<>>
    /\ chr = ""
    /\ escaped = FALSE
    /\ str = <<>> /\ args = NoOptions /\ given = NoInput
    /\ i = 0 /\ pc = "idle" /\ err = NoError /\ ret = NoReturn
    /\ calls = 0 /\ first = NoFirst

\* new Parser(), as in app.js
Init == Constructed(NoOptions)

InitReuse == \E options \in CtorArgs : Constructed(options)

\* The head of extract(str, options), up to the loop
Call(in) ==
    /\ str' = Text(in)
    /\ args' = in.args
    /\ given' = in
    /\ buffer' = <<>>
    /\ opts' = MergeOptions(in.args)
    /\ reset
    /\ i' = 0 /\ pc' = "scan" /\ err' = NoError /\ ret' = NoReturn
    /\ calls' = calls + 1
    /\ UNCHANGED <<ctor, first>>

\* The first call on a new instance
Extract == pc = "idle" /\ \E in \in Pool : Call(in)

\* A call on an instance, new or used
ExtractAgain ==
    /\ pc # "scan"
    /\ calls < MaxCalls
    /\ \E in \in ReusePool : Call(in)

Next ==
    \/ Extract
    \/ ScanColon
    \/ ScanSeparator
    \/ ScanClose
    \/ ScanOpen
    \/ ScanBackslash
    \/ ScanOther
    \/ Return

NextReuse ==
    \/ ExtractAgain
    \/ ScanColon
    \/ ScanSeparator
    \/ ScanClose
    \/ ScanOpen
    \/ ScanBackslash
    \/ ScanOther
    \/ Return

Spec == Init /\ [][Next]_vars

SpecReuse == InitReuse /\ [][NextReuse]_vars

-----------------------------------------------------------------------------
(* Vocabulary of the claims *)

\* The call has ended, by a return or by a throw.
Ended == pc \in {"done", "error"}

\* The error classes of the specification, by the throw that raises them
GrammarErrors ==
    {"UnbalancedGroup", "UnexpectedCharacter", "MissingOperator",
     "InvalidEscapedCharacter"}

UnknownTokenErrors == {"InvalidType", "KeyNotAllowed", "InvalidOperator"}

TypeMismatchErrors ==
    {"UnexpectedStringOperator", "UnexpectedBooleanOperator",
     "UnexpectedBooleanValue", "InvalidValueTypes", "ExpectingOne",
     "WrongNumberOfArguments", "InvalidOperatorForKey",
     "UnexpectedVoidOperator", "UnexpectedVoidValue"}

\* The operators the specification allows for each declared type
LegalOperators(t) ==
    IF t = DT_string
    THEN {Op_eq, Op_ne, Op_in, Op_notIn, Op_regex, Op_notRegex}
    ELSE IF t = DT_boolean THEN {Op_eq, Op_ne}
    ELSE IF t \in {DT_number, DT_date}
    THEN {Op_eq, Op_ne, Op_gt, Op_gte, Op_lt, Op_lte, Op_in, Op_notIn,
          Op_between, Op_notBetween}
    ELSE IF t = DT_void THEN {Op_is, Op_isNot}
    ELSE {}

\* The scalar value texts of the pools that the specification accepts for
\* each declared type
ValidScalars(t) ==
    IF t = DT_string
    THEN {V_a, V_1, V_2024, Lit_true, Lit_null, Lit_undefined, V_yes}
    ELSE IF t = DT_boolean THEN {Lit_true, Lit_false}
    ELSE IF t = DT_number THEN {V_1, V_2, V_2024}
    ELSE IF t = DT_date THEN {V_2024, V_2025}
    ELSE IF t = DT_void THEN {Lit_null, Lit_undefined}
    ELSE {}

IsScalarClause(c) ==
    Len(c.hdr) = 3 /\ c.open = <<>> /\ c.close = <<>> /\ Len(c.els) = 1

IsGroupClause(c) ==
    Len(c.hdr) = 3 /\ c.open # <<>> /\ c.close # <<>>

\* The text has no colon, separator, bracket or backslash.
Plain(text) == \A k \in 1..Len(text) : text[k] \notin Structural

\* type:field:op:value with a registered type, a field, an operator legal
\* for the type and a value valid for the type
WellFormedScalar(c) ==
    /\ IsScalarClause(c)
    /\ c.hdr[1] \in DataType
    /\ c.hdr[2] # <<>> /\ Plain(c.hdr[2])
    /\ c.hdr[3] \in LegalOperators(c.hdr[1])
    /\ c.els[1] \in ValidScalars(c.hdr[1])

SingleClause == Len(given.cl) = 1

\* The call's configuration permits the field: no allowedKeys were given, or
\* they hold the wildcard or the field.
Permitted(f) ==
    ~args.has \/ Wildcard \in args.allowedKeys \/ f \in args.allowedKeys

\* The descriptor has the header of clause c.
HeaderOf(d, c) ==
    d.type = c.hdr[1] /\ d.field = c.hdr[2] /\ d.operator = c.hdr[3]

\* C1 (as claimed): one well-formed scalar clause, its field permitted, yields
\* exactly one descriptor, with the clause's type, field and operator, isMulti
\* false and no groupDelimiter.
C1_OneScalarClause ==
    (Ended /\ SingleClause /\ WellFormedScalar(given.cl[1])
       /\ Permitted(given.cl[1].hdr[2]))
    => /\ pc = "done"
       /\ Len(ret.list) = 1
       /\ HeaderOf(ret.list[1], given.cl[1])
       /\ ~ret.list[1].multi
       /\ ret.list[1].delimiter = Undefined

\* C1, apart from the void clause whose value is `undefined`
C1_ExceptVoidUndefined ==
    (Ended /\ SingleClause /\ WellFormedScalar(given.cl[1])
       /\ Permitted(given.cl[1].hdr[2])
       /\ ~(given.cl[1].hdr[1] = DT_void /\ given.cl[1].els[1] = Lit_undefined))
    => /\ pc = "done"
       /\ Len(ret.list) = 1
       /\ HeaderOf(ret.list[1], given.cl[1])
       /\ ~ret.list[1].multi
       /\ ret.list[1].delimiter = Undefined

\* C1: v:f:!:undefined, a well-formed void clause, has failed in transform.
C1_Witness ==
    /\ pc = "error"
    /\ given = One(ScalarClause(DT_void, F_f, Op_isNot, Lit_undefined))
    /\ err.kind = "JsonSyntaxError"

\* The number a numeral of the pools denotes
NumeralOf(text) ==
    IF text = V_1 THEN 1 ELSE IF text = V_2 THEN 2
    ELSE IF text = V_2024 THEN 2024 ELSE IF text = V_2025 THEN 2025 ELSE 0

\* The instant a date of the pools denotes, in days since the epoch:
\* 2024-01-01 and 2025-01-01
InstantOf(text) == IF text = V_2024 THEN 19723 ELSE 20089

\* The typed value that the specification gives an element of type t
ElementValue(t, text) ==
    IF t = DT_number THEN NumV(NumeralOf(text))
    ELSE IF t = DT_date THEN NumV(InstantOf(text))
    ELSE IF t = DT_boolean THEN BoolV(text = Lit_true)
    ELSE IF t = DT_void THEN NullV
    ELSE StrV(text)

\* The descriptor that the specification builds from a clause of Forms
ExpectedOf(c) ==
    [type |-> c.hdr[1], field |-> c.hdr[2], operator |-> c.hdr[3],
     multi |-> c.open # <<>>,
     delimiter |-> IF c.open # <<>> THEN DelimiterOf(c.close) ELSE Undefined,
     shape |-> IF c.open # <<>> THEN "list" ELSE "scalar",
     value |-> [k \in 1..Len(c.els) |-> ElementValue(c.hdr[1], c.els[k])]]

\* The input is a list of clauses of Forms, every field permitted.
ListOfForms ==
    /\ Len(given.cl) >= 1
    /\ \A k \in 1..Len(given.cl) :
          given.cl[k] \in Forms /\ Permitted(given.cl[k].hdr[2])

VoidUndefined(c) ==
    Len(c.hdr) = 3 /\ c.hdr[1] = DT_void /\ c.els = <<Lit_undefined>>

\* C2 (as claimed): n well-formed clauses joined by top-level separators
\* yield exactly n descriptors, the k-th built from the k-th clause.
C2_OnePerClauseInOrder ==
    (Ended /\ ListOfForms /\ Len(given.cl) >= 2)
    => /\ pc = "done"
       /\ Len(ret.list) = Len(given.cl)
       /\ \A k \in 1..Len(given.cl) : ret.list[k] = ExpectedOf(given.cl[k])

\* C2, apart from the lists that hold a void clause whose value is `undefined`
C2_ExceptVoidUndefined ==
    (Ended /\ ListOfForms
       /\ \A k \in 1..Len(given.cl) : ~VoidUndefined(given.cl[k]))
    => /\ pc = "done"
       /\ Len(ret.list) = Len(given.cl)
       /\ \A k \in 1..Len(given.cl) : ret.list[k] = ExpectedOf(given.cl[k])

\* C2: s:f:=:a,v:g:!!:undefined has failed at its second clause, after the
\* descriptor of the first was built.
C2_Witness ==
    /\ pc = "error"
    /\ given = Input(<<ScalarClause(DT_string, F_f, Op_eq, V_a),
                       ScalarClause(DT_void, F_g, Op_is, Lit_undefined)>>,
                     <<Comma>>, NoOptions)
    /\ Len(buffer) = 1
    /\ err.kind = "JsonSyntaxError"

RECURSIVE PiecesFrom(_, _, _, _)
PiecesFrom(rest, seps, d, cur) ==
    IF seps = <<>> THEN <<cur>>
    ELSE IF Head(seps) = d
    THEN <<cur>> \o PiecesFrom(Tail(rest), Tail(seps), d, Head(rest))
    ELSE PiecesFrom(Tail(rest), Tail(seps), d, cur \o Head(seps) \o Head(rest))

\* The elements of a group as its delimiter d parts them: the elements
\* written with the other separator between them stay together.
Pieces(c, d) == PiecesFrom(Tail(c.els), c.isep, d, Head(c.els))

PlainElements(c) == \A k \in 1..Len(c.els) : Plain(c.els[k])

\* The input is one group clause of the given declared types.
OneGroupOf(types) ==
    /\ SingleClause
    /\ IsGroupClause(given.cl[1])
    /\ given.cl[1].hdr[1] \in types
    /\ PlainElements(given.cl[1])

\* C3: the descriptor of a group of strings, numbers or dates has isMulti
\* true, the delimiter its closing bracket names (`,` for `]`, `|` for `)`),
\* and as its value the group's text split on that delimiter, in input order.
C3_GroupSplitOnClosingDelimiter ==
    (pc = "done" /\ OneGroupOf({DT_string, DT_number, DT_date}))
    => /\ Len(ret.list) = 1
       /\ LET c == given.cl[1]
              d == ret.list[1]
              p == Pieces(c, DelimiterOf(c.close))
          IN  /\ d.multi
              /\ d.delimiter = DelimiterOf(c.close)
              /\ d.shape = "list"
              /\ Len(d.value) = Len(p)
              /\ \A k \in 1..Len(p) : d.value[k] = ElementValue(c.hdr[1], p[k])

\* A group of three dates closed by `]` has been returned as three instants.
C3_Witness ==
    /\ pc = "done"
    /\ OneGroupOf({DT_date})
    /\ given.cl[1].close = <<"]">>
    /\ Len(given.cl[1].els) = 3
    /\ ret.list[1].value = <<NumV(19723), NumV(20089), NumV(19723)>>

RangeOperators == {Op_between, Op_notBetween}

\* The clause's value consists of exactly two elements.
TwoElements(c) ==
    IsGroupClause(c) /\ Len(Pieces(c, DelimiterOf(c.close))) = 2

\* The input is one clause of a number or a date with a range operator,
\* scalar (with some value text) or grouped.
OneRangeClause ==
    /\ SingleClause
    /\ LET c == given.cl[1]
       IN  /\ IsGroupClause(c) \/ (IsScalarClause(c) /\ c.els[1] # <<>>)
           /\ c.hdr[1] \in {DT_number, DT_date}
           /\ c.hdr[2] # <<>> /\ Permitted(c.hdr[2])
           /\ c.hdr[3] \in RangeOperators
           /\ PlainElements(c)

\* C4 (as claimed): a number or date clause with a range operator fails with
\* a TypeMismatchError unless its value has exactly 2 elements, and no
\* descriptor with a range operator and another value is ever built.
C4_RangeNeedsTwoElements ==
    /\ (Ended /\ OneRangeClause /\ ~TwoElements(given.cl[1]))
       => (pc = "error" /\ err.kind \in TypeMismatchErrors)
    /\ \A k \in 1..Len(buffer) :
          (buffer[k].type \in {DT_number, DT_date}
             /\ buffer[k].operator \in RangeOperators)
          => (buffer[k].shape = "list" /\ Len(buffer[k].value) = 2)

\* C4 for groups alone: what the code does enforce
C4_GroupsOnly ==
    /\ (Ended /\ OneRangeClause /\ IsGroupClause(given.cl[1])
          /\ ~TwoElements(given.cl[1]))
       => (pc = "error" /\ err.kind \in TypeMismatchErrors)
    /\ \A k \in 1..Len(buffer) :
          (buffer[k].type \in {DT_number, DT_date} /\ buffer[k].multi
             /\ buffer[k].operator \in RangeOperators)
          => (buffer[k].shape = "list" /\ Len(buffer[k].value) = 2)

\* C4: n:f:><:1 has returned a descriptor with the range operator and the
\* single number 1.
C4_Witness ==
    /\ pc = "done"
    /\ given = One(ScalarClause(DT_number, F_f, Op_between, V_1))
    /\ Len(ret.list) = 1
    /\ ret.list[1].operator = Op_between
    /\ ret.list[1].shape = "scalar"
    /\ ret.list[1].value = <<NumV(1)>>

\* The character about to be examined is a colon that follows a backslash.
AtEscapedColon ==
    pc = "scan" /\ 1 <= i /\ i < Len(str) /\ str[i] = "\\" /\ str[i + 1] = ":"

\* s:f:!~:[message me\:]
MessageMeInput ==
    One(GroupClause(DT_string, F_f, Op_notRegex, SquareBrackets,
                    [els |-> <<V_message_me \o <<"\\", ":">> >>, isep |-> <<>>]))

\* C5: a colon that follows a backslash is appended to the value as a literal
\* colon: it sets no header field and raises no error, inside a group as well
\* as outside; and `[message me\:]` decodes to the one element `message me:`.
C5_EscapedColonIsLiteral ==
    /\ [][AtEscapedColon
            => /\ pc' = "scan"
               /\ i' = i + 1
               /\ stack' = Append(stack, ":")
               /\ filter' = filter
               /\ buffer' = buffer]_vars
    /\ []((Ended /\ given = MessageMeInput)
            => /\ pc = "done"
               /\ Len(ret.list) = 1
               /\ ret.list[1].shape = "list"
               /\ ret.list[1].value = <<StrV(V_message_me \o <<":">>)>>)

\* `[message me\:]` has been parsed: the escaped colon was read inside the
\* open group and the call has returned.
C5_Witness ==
    /\ pc = "done"
    /\ given = MessageMeInput
    /\ ret.list[1].multi
    /\ ret.list[1].value[1].s = V_message_me \o <<":">>

\* The call was given allowedKeys without the wildcard.
Whitelisted == args.has /\ Wildcard \notin args.allowedKeys

\* C6 (as claimed): under allowedKeys without the wildcard, an input with a
\* clause whose field is not allowed fails with an UnknownTokenError, an
\* otherwise valid input whose fields are all allowed succeeds, and no
\* descriptor has a field outside allowedKeys.
C6_Whitelist ==
    /\ (Ended /\ Whitelisted /\ Len(given.cl) >= 1
          /\ \A k \in 1..Len(given.cl) : given.cl[k] \in Forms)
       => IF \E k \in 1..Len(given.cl) : given.cl[k].hdr[2] \notin args.allowedKeys
          THEN pc = "error" /\ err.kind \in UnknownTokenErrors
          ELSE pc = "done"
    /\ Whitelisted
       => \A k \in 1..Len(buffer) : buffer[k].field \in args.allowedKeys

\* C6, apart from the inputs that hold a void clause whose value is `undefined`
C6_ExceptVoidUndefined ==
    /\ (Ended /\ Whitelisted /\ Len(given.cl) >= 1
          /\ \A k \in 1..Len(given.cl) :
                given.cl[k] \in Forms /\ ~VoidUndefined(given.cl[k]))
       => IF \E k \in 1..Len(given.cl) : given.cl[k].hdr[2] \notin args.allowedKeys
          THEN pc = "error" /\ err.kind = "KeyNotAllowed"
          ELSE pc = "done"
    /\ Whitelisted
       => \A k \in 1..Len(buffer) : buffer[k].field \in args.allowedKeys

\* C6: v:g:!!:undefined, parsed with allowedKeys [g], has failed in transform.
C6_Witness ==
    /\ pc = "error"
    /\ given = Input(<<ScalarClause(DT_void, F_g, Op_is, Lit_undefined)>>, <<>>,
                     Options({F_g}))
    /\ err.kind = "JsonSyntaxError"

\* The input is one boolean clause with a registered operator, scalar (with
\* some value text) or grouped.
OneBooleanClause ==
    /\ SingleClause
    /\ LET c == given.cl[1]
       IN  /\ IsGroupClause(c) \/ (IsScalarClause(c) /\ c.els[1] # <<>>)
           /\ c.hdr[1] = DT_boolean
           /\ c.hdr[2] # <<>> /\ Plain(c.hdr[2]) /\ Permitted(c.hdr[2])
           /\ c.hdr[3] \in Operator
           /\ PlainElements(c)

\* The value text of a clause as written
RawValue(c) == Interleave(c.els, c.isep)

OneScalarOfPool ==
    /\ SingleClause /\ ~args.has /\ given \in ScalarInputs
    /\ given.cl[1].els[1] # <<>>

\* Index of the colon that ends the k-th header token of clause c
ColonIndex(c, k) == Len(HeaderText(SubSeq(c.hdr, 1, k))) - 1

\* C8 (as claimed): an unregistered declared-type token, or an unregistered
\* operator token, makes extract fail with an UnknownTokenError at the colon
\* that ends the token, and nothing is returned.
C8_UnknownTokenAtItsColon ==
    (Ended /\ OneScalarOfPool)
    => LET c == given.cl[1]
       IN  /\ c.hdr[1] \notin DataType
              => /\ pc = "error" /\ err.kind \in UnknownTokenErrors
                 /\ i = ColonIndex(c, 1)
                 /\ ~ret.has
           /\ (c.hdr[1] \in DataType /\ c.hdr[3] \notin Operator)
              => /\ pc = "error" /\ err.kind \in UnknownTokenErrors
                 /\ i = ColonIndex(c, 3)
                 /\ ~ret.has

\* C8 for the clauses whose field token is not empty
C8_WithNonEmptyField ==
    (Ended /\ OneScalarOfPool /\ given.cl[1].hdr[2] # <<>>)
    => LET c == given.cl[1]
       IN  /\ c.hdr[1] \notin DataType
              => /\ pc = "error" /\ err.kind = "InvalidType"
                 /\ i = ColonIndex(c, 1)
                 /\ ~ret.has
           /\ (c.hdr[1] \in DataType /\ c.hdr[3] \notin Operator)
              => /\ pc = "error" /\ err.kind = "InvalidOperator"
                 /\ i = ColonIndex(c, 3)
                 /\ ~ret.has

\* C8: s:::1, whose operator token is empty, has returned the empty list.
C8_Witness ==
    /\ pc = "done"
    /\ given = One(ScalarClause(DT_string, <<>>, <<>>, V_1))
    /\ ret = Returned(<<>>)
    /\ err = NoError

\* C9: the outcome of a call (the list returned, or the error) depends on its
\* input and its options alone: the configuration in force is the one built
\* from the call's options, whatever the constructor was given, and parsing
\* the first call's input again with the same options, after any calls in
\* between, gives the first call's outcome.
C9_OutcomeDependsOnInputAndOptions ==
    /\ calls >= 1 => opts = (IF args.has THEN args.allowedKeys ELSE {Wildcard})
    /\ (first.set /\ Ended /\ str = first.str /\ args = first.args)
       => Outcome(pc, err, ret) = first.outcome

\* The last of the calls on an instance that was constructed with options has
\* parsed the first call's input again, and returned a descriptor.
C9_Witness ==
    /\ calls = MaxCalls
    /\ ctor # NoOptions
    /\ pc = "done"
    /\ str = first.str /\ args = first.args
    /\ Len(ret.list) = 1
    /\ ret = first.outcome.ret

\* C10: an error ends the call where it is raised: the caller gets no list,
\* not even the descriptors built before the error, and nothing more of the
\* input is read.
C10_ErrorAbortsTheCall ==
    /\ [](err # NoError <=> pc = "error")
    /\ [](pc = "error" => (~ret.has /\ ret.list = <<>>))
    /\ [][pc = "error" => (pc' = "scan" /\ i' = 0 /\ buffer' = <<>>)]_vars

\* A call has failed after it had built a descriptor and before the end of
\* its input: the descriptor is in this.buffer and was not returned.
C10_Witness ==
    /\ pc = "error"
    /\ Len(buffer) >= 1
    /\ i + 1 < Len(str)
    /\ ~ret.has

\* The input is one clause with a registered type, a field and a registered
\* operator, scalar (with some value text) or grouped.
OneTypedClause ==
    /\ SingleClause
    /\ LET c == given.cl[1]
       IN  /\ IsGroupClause(c) \/ (IsScalarClause(c) /\ c.els[1] # <<>>)
           /\ c.hdr[1] \in DataType
           /\ c.hdr[2] # <<>> /\ Plain(c.hdr[2]) /\ Permitted(c.hdr[2])
           /\ c.hdr[3] \in Operator
           /\ PlainElements(c)

\* C11 (as claimed): every returned descriptor has an operator that is legal
\* for its declared type, and a clause with another type/operator pair fails
\* with a TypeMismatchError, scalar or grouped.
C11_LegalOperatorForType ==
    /\ \A k \in 1..Len(ret.list) :
          (ret.list[k].type \in DataType /\ ret.list[k].operator \in Operator)
          => ret.list[k].operator \in LegalOperators(ret.list[k].type)
    /\ (Ended /\ OneTypedClause
          /\ given.cl[1].hdr[3] \notin LegalOperators(given.cl[1].hdr[1]))
       => (pc = "error" /\ err.kind \in TypeMismatchErrors)

\* C11 apart from the scalar clauses of numbers and dates: what the code does
\* enforce
C11_ExceptScalarNumbersAndDates ==
    /\ \A k \in 1..Len(ret.list) :
          (ret.list[k].type \in DataType /\ ret.list[k].operator \in Operator
             /\ (ret.list[k].multi \/ ret.list[k].type \notin {DT_number, DT_date}))
          => ret.list[k].operator \in LegalOperators(ret.list[k].type)
    /\ (Ended /\ OneTypedClause
          /\ given.cl[1].hdr[3] \notin LegalOperators(given.cl[1].hdr[1])
          /\ (IsGroupClause(given.cl[1])
                \/ given.cl[1].hdr[1] \notin {DT_number, DT_date}))
       => (pc = "error" /\ err.kind \in TypeMismatchErrors)

\* C11: n:f:~:1 has returned a number descriptor with the operator `~`.
C11_Witness ==
    /\ pc = "done"
    /\ given = One(ScalarClause(DT_number, F_f, Op_regex, V_1))
    /\ Len(ret.list) = 1
    /\ ret.list[1].type = DT_number
    /\ ret.list[1].operator = Op_regex
    /\ ret.list[1].value = <<NumV(1)>>

\* The input is one well-formed scalar date clause, its field permitted.
OneScalarDate ==
    /\ SingleClause
    /\ WellFormedScalar(given.cl[1])
    /\ given.cl[1].hdr[1] = DT_date
    /\ Permitted(given.cl[1].hdr[2])

\* C12 (as claimed): the value of a scalar date clause is the parsed instant
\* of its text, as for the elements of a date group.
C12_ScalarDateIsParsed ==
    (Ended /\ OneScalarDate)
    => /\ pc = "done"
       /\ Len(ret.list) = 1
       /\ ret.list[1].value = <<NumV(InstantOf(given.cl[1].els[1]))>>

\* C12, what the code does: the value of a scalar date clause is its text.
C12_ScalarDateIsRawText ==
    (Ended /\ OneScalarDate)
    => /\ pc = "done"
       /\ Len(ret.list) = 1
       /\ ret.list[1].value = <<StrV(given.cl[1].els[1])>>

\* C12: d:f:=:2024 has returned a descriptor whose value is the text `2024`.
C12_Witness ==
    /\ pc = "done"
    /\ given = One(ScalarClause(DT_date, F_f, Op_eq, V_2024))
    /\ Len(ret.list) = 1
    /\ ret.list[1].value = <<StrV(V_2024)>>

\* The input is one void clause with a field and a registered operator.
OneVoidClause == OneTypedClause /\ given.cl[1].hdr[1] = DT_void

\* C13 (as claimed): a void clause with the operator `!!` or `!` succeeds for
\* the raw value `null` and for `undefined`, with the null value in both
\* cases; any other operator or value text fails with a TypeMismatchError.
C13_VoidNullAndUndefined ==
    (Ended /\ OneVoidClause)
    => LET c == given.cl[1]
       IN  IF c.hdr[3] \in {Op_is, Op_isNot}
              /\ RawValue(c) \in {Lit_null, Lit_undefined}
           THEN /\ pc = "done"
                /\ Len(ret.list) = 1
                /\ HeaderOf(ret.list[1], c)
                /\ ret.list[1].value = <<NullV>>
           ELSE pc = "error" /\ err.kind \in TypeMismatchErrors

\* C13 apart from the raw value `undefined`: what the code does
C13_VoidNull ==
    (Ended /\ OneVoidClause /\ RawValue(given.cl[1]) # Lit_undefined)
    => LET c == given.cl[1]
       IN  IF c.hdr[3] \in {Op_is, Op_isNot} /\ RawValue(c) = Lit_null
           THEN /\ pc = "done"
                /\ Len(ret.list) = 1
                /\ HeaderOf(ret.list[1], c)
                /\ ret.list[1].value = <<NullV>>
           ELSE pc = "error" /\ err.kind \in TypeMismatchErrors

\* C13: v:g:!!:undefined, parsed under the default configuration, has failed
\* with the syntax error of JSON.parse and has built nothing.
C13_Witness ==
    /\ pc = "error"
    /\ given = One(ScalarClause(DT_void, F_g, Op_is, Lit_undefined))
    /\ err.kind = "JsonSyntaxError"
    /\ buffer = <<>>

\* The call has ended at the end of its input while a group was open.
EndedInOpenGroup == Ended /\ i = Len(str) /\ filter.multi

\* C14 (as claimed): when the end of the input is reached while a group is
\* open, extract fails with a GrammarError, whatever the buffer and the header
\* fields hold.
C14_OpenGroupAtEndFails ==
    EndedInOpenGroup => (pc = "error" /\ err.kind \in GrammarErrors)

\* C14 when characters are buffered and a field or an operator is set: what
\* the code does enforce
C14_WithBufferedText ==
    (EndedInOpenGroup /\ stack # <<>>
       /\ (Truthy(filter.field) \/ Truthy(filter.operator)))
    => (pc = "error" /\ err.kind = "UnbalancedGroup")

\* C14: s:f:=:[ has returned the empty list with its group still open.
C14_Witness ==
    /\ pc = "done"
    /\ given = One(RawClause(<<DT_string, F_f, Op_eq>>, <<"[">>))
    /\ filter.multi
    /\ ret = Returned(<<>>)
    /\ err = NoError

\* The character about to be examined is a separator or a bracket that
\* follows a backslash which is not itself escaped.
AtEscapedStructural ==
    /\ pc = "scan" /\ 1 <= i /\ i < Len(str)
    /\ str[i] = "\\" /\ (i = 1 \/ str[i - 1] # "\\")
    /\ str[i + 1] \in {",", "|", "[", "]", "(", ")"}

\* s:f:=:[a,b\,c]
EscapedCommaInput ==
    One(RawClause(<<DT_string, F_f, Op_eq>>,
                  <<"[", "a", ",", "b", "\\", ",", "c", "]">>))

\* C15 (as claimed): a separator or a bracket that follows a backslash is
\* appended to the value as a literal character: it ends no clause, opens and
\* closes no group and raises no error; `[a,b\,c]` yields the two elements
\* `a` and `b,c`.
C15_EscapedStructuralIsLiteral ==
    /\ [][AtEscapedStructural
            => /\ pc' = "scan"
               /\ i' = i + 1
               /\ stack' = Append(stack, str[i + 1])
               /\ filter' = filter
               /\ buffer' = buffer]_vars
    /\ []((Ended /\ given = EscapedCommaInput)
            => /\ pc = "done"
               /\ Len(ret.list) = 1
               /\ Len(ret.list[1].value) = 2
               /\ ret.list[1].value[1] = StrV(<<"a">>)
               /\ ret.list[1].value[2] = StrV(<<"b", ",", "c">>))

\* C15, what the code does: a separator or a bracket that follows a backslash
\* makes extract fail with the 'Invalid escaped character' error.
C15_EscapedStructuralFails ==
    [][AtEscapedStructural
         => /\ pc' = "error"
            /\ err'.kind = "InvalidEscapedCharacter"
            /\ err'.arg = <<str[i + 1]>>
            /\ stack' = stack
            /\ buffer' = buffer]_vars

\* C15: s:f:=:[a,b\,c] has failed at its escaped comma.
C15_Witness ==
    /\ pc = "error"
    /\ given = EscapedCommaInput
    /\ err = Error("InvalidEscapedCharacter", <<",">>, 0)
    /\ str[i] = "\\" /\ str[i + 1] = ","

\* C16 (as claimed): a returned descriptor carries a groupDelimiter if and
\* only if its isMulti is true, if and only if its clause was written as a
\* group; a closing bracket read outside a group yields no descriptor with a
\* delimiter and without isMulti.
C16_DelimiterIffMulti ==
    /\ \A k \in 1..Len(ret.list) :
          (ret.list[k].delimiter # Undefined) <=> ret.list[k].multi
    /\ (pc = "done" /\ ListOfForms)
       => \A k \in 1..Len(ret.list) :
             ret.list[k].multi <=> IsGroupClause(given.cl[k])

\* C16, the half that the code keeps: a descriptor with isMulti carries a
\* delimiter, and the clauses of a well-formed list have isMulti exactly when
\* they are groups.
C16_MultiHasDelimiter ==
    /\ \A k \in 1..Len(ret.list) :
          ret.list[k].multi => ret.list[k].delimiter # Undefined
    /\ (pc = "done" /\ ListOfForms)
       => \A k \in 1..Len(ret.list) :
             /\ ret.list[k].multi <=> IsGroupClause(given.cl[k])
             /\ ret.list[k].multi <=> (ret.list[k].delimiter # Undefined)

\* C16: s:f:=:a] has returned a descriptor with the delimiter `,` and without
\* isMulti.
C16_Witness ==
    /\ pc = "done"
    /\ given = One(RawClause(<<DT_string, F_f, Op_eq>>, <<"a", "]">>))
    /\ Len(ret.list) = 1
    /\ ret.list[1].delimiter = Comma
    /\ ~ret.list[1].multi
    /\ ret.list[1].value = <<StrV(V_a)>>

\* A character is about to be examined while the escaped flag is set.
AtEscaped == pc = "scan" /\ escaped /\ i < Len(str)

\* The character about to be examined does not follow a backslash.
AtUnescaped ==
    pc = "scan" /\ i < Len(str) /\ (i = 0 \/ str[i] # "\\")

\* C17 (as claimed): the escaped flag lasts for one character: once the
\* character after the backslash has been processed, whatever it is, the flag
\* is false again, so a separator, a colon or a bracket that does not follow a
\* backslash is never refused as an escaped one.
C17_EscapedLastsOneCharacter ==
    /\ [][(AtEscaped /\ pc' = "scan") => ~escaped']_vars
    /\ [][AtUnescaped
            => ~(pc' = "error" /\ err'.kind = "InvalidEscapedCharacter")]_vars

\* C17, what the code does: while the flag is set, only a colon clears it; an
\* ordinary character and a backslash leave it set.
C17_OnlyColonClearsEscaped ==
    [][(AtEscaped /\ pc' = "scan") => (escaped' <=> str[i + 1] # ":")]_vars

\* C17: s:f:=:a\b, has failed at its comma, which follows the ordinary
\* character `b`, with the flag still set.
C17_Witness ==
    /\ pc = "error"
    /\ given = One(RawClause(<<DT_string, F_f, Op_eq>>, <<"a", "\\", "b", ",">>))
    /\ err.kind = "InvalidEscapedCharacter"
    /\ str[i] = "b" /\ str[i + 1] = ","
    /\ escaped

\* The character about to be examined is a colon that separates header
\* tokens: the escaped flag is not set and no group is open.
AtHeaderColon ==
    /\ pc = "scan" /\ i < Len(str) /\ str[i + 1] = ":"
    /\ ~escaped /\ ~filter.multi

\* A step of the scan that keeps every header field that holds a token, sets
\* the fields in the order type, field, operator, and gives the token of a
\* colon read after the field was set to the operator.
HeaderStepInOrder ==
    /\ (filter.type # Undefined /\ filter'.type # Undefined)
       => filter'.type = filter.type
    /\ (filter.field # Undefined /\ filter'.field # Undefined)
       => filter'.field = filter.field
    /\ (filter.operator # Undefined /\ filter'.operator # Undefined)
       => filter'.operator = filter.operator
    /\ filter'.field # Undefined => filter'.type # Undefined
    /\ filter'.operator # Undefined => filter'.field # Undefined
    /\ (AtHeaderColon /\ filter.field # Undefined) => filter'.operator = stack

\* C18 (as claimed): within a clause the type, the field and the operator are
\* each assigned at most once, in that order; a colon never overwrites a
\* header field that an earlier colon consumed a token into, the empty token
\* included.
C18_HeaderFieldsAssignedOnce ==
    [][(pc = "scan" /\ pc' = "scan") => HeaderStepInOrder]_vars

\* C18 for the clauses whose field token is not empty: what the code does
\* enforce
C18_WithNonEmptyField ==
    [][(pc = "scan" /\ pc' = "scan" /\ filter.field # <<>>)
         => HeaderStepInOrder]_vars

\* C18: n::>>:1 has returned a descriptor whose field is the third token `>>`
\* and whose operator was never set.
C18_Witness ==
    /\ pc = "done"
    /\ given = One(ScalarClause(DT_number, <<>>, O_bad, V_1))
    /\ Len(ret.list) = 1
    /\ ret.list[1].field = O_bad
    /\ ret.list[1].operator = Undefined

\* The character about to be examined is a colon that does not follow a
\* backslash, and a group is open.
AtColonInOpenGroup ==
    /\ pc = "scan" /\ i < Len(str) /\ str[i + 1] = ":"
    /\ i = 0 \/ str[i] # "\\"
    /\ filter.multi

\* s:f:=:[a\b:c]
StaleEscapeInput ==
    One(RawClause(<<DT_string, F_f, Op_eq>>,
                  <<"[", "a", "\\", "b", ":", "c", "]">>))

\* C19 (as claimed): an unescaped colon read while a group is open makes
\* extract fail with a GrammarError; it is not consumed as a header separator
\* and not appended to the group's value.
C19_ColonInOpenGroupFails ==
    [][AtColonInOpenGroup
         => /\ pc' = "error"
            /\ err'.kind \in GrammarErrors
            /\ stack' = stack
            /\ filter' = filter]_vars

\* C19 when the escaped flag is clear: what the code does enforce
C19_WhenFlagIsClear ==
    [][(AtColonInOpenGroup /\ ~escaped)
         => /\ pc' = "error"
            /\ err'.kind = "UnbalancedGroup"
            /\ stack' = stack
            /\ filter' = filter]_vars

\* C19: s:f:=:[a\b:c] has returned the element `ab:c`: its colon, which
\* follows the ordinary character `b`, was appended to the group's value.
C19_Witness ==
    /\ pc = "done"
    /\ given = StaleEscapeInput
    /\ Len(ret.list) = 1
    /\ ret.list[1].multi
    /\ ret.list[1].value = <<StrV(<<"a", "b", ":", "c">>)>>

\* The character about to be examined is a separator that does not follow a
\* backslash, outside a group, with characters buffered, after the type and
\* the field have consumed their tokens and before the operator has.
AtSeparatorBeforeOperator ==
    /\ pc = "scan" /\ i < Len(str) /\ str[i + 1] \in {",", "|"}
    /\ i = 0 \/ str[i] # "\\"
    /\ ~filter.multi
    /\ stack # <<>>
    /\ filter.type # Undefined
    /\ filter.field # Undefined
    /\ filter.operator = Undefined

\* C20 (as claimed): a separator read outside a group with a non-empty buffer
\* while the type and the field are set and the operator is not makes extract
\* fail with a GrammarError, and no descriptor is built for the clause.
C20_SeparatorBeforeOperatorFails ==
    [][AtSeparatorBeforeOperator
         => /\ pc' = "error"
            /\ err'.kind \in GrammarErrors
            /\ buffer' = buffer]_vars

\* C20 for the clauses whose field token is not empty, read with the escaped
\* flag clear: what the code does enforce
C20_WithNonEmptyField ==
    [][(AtSeparatorBeforeOperator /\ filter.field # <<>> /\ ~escaped)
         => /\ pc' = "error"
            /\ err'.kind = "MissingOperator"
            /\ buffer' = buffer]_vars

\* C20: n::1, has returned a descriptor built at its comma, with the empty
\* field and no operator.
C20_Witness ==
    /\ pc = "done"
    /\ given = One(RawClause(<<DT_number, <<>> >>, <<"1", ",">>))
    /\ Len(ret.list) = 1
    /\ ret.list[1].type = DT_number
    /\ ret.list[1].field = <<>>
    /\ ret.list[1].operator = Undefined
    /\ ret.list[1].value = <<NumV(1)>>

\* The character about to be examined is a separator that does not follow a
\* backslash, and a group is open.
AtSeparatorInOpenGroup ==
    /\ pc = "scan" /\ i < Len(str) /\ str[i + 1] \in {",", "|"}
    /\ i = 0 \/ str[i] # "\\"
    /\ filter.multi

\* s:f:=:[a|1]   and   s:f:=:(a,1|a)
OtherSeparatorInput ==
    One(GroupClause(DT_string, F_f, Op_eq, SquareBrackets,
                    [els |-> <<V_a, V_1>>, isep |-> <<Pipe>>]))

TwoSeparatorsInput ==
    One(GroupClause(DT_string, F_f, Op_eq, RoundBrackets,
                    [els |-> <<V_a, V_1, V_a>>, isep |-> <<Comma, Pipe>>]))

\* s:f:=:[a\b,c]
StaleEscapeBeforeCommaInput ==
    One(RawClause(<<DT_string, F_f, Op_eq>>,
                  <<"[", "a", "\\", "b", ",", "c", "]">>))

\* C21 (as claimed): inside an open group an unescaped separator finalizes
\* nothing: it is appended to the buffer as it is, and the text is split on
\* the closing character's delimiter alone: `[a|1]` is the one element `a|1`,
\* `(a,1|a)` the two elements `a,1` and `a`.
C21_SeparatorInGroupIsAppended ==
    /\ [][AtSeparatorInOpenGroup
            => /\ pc' = "scan"
               /\ i' = i + 1
               /\ stack' = Append(stack, str[i + 1])
               /\ buffer' = buffer
               /\ filter' = filter]_vars
    /\ []((Ended /\ given = OtherSeparatorInput)
            => /\ pc = "done" /\ Len(ret.list) = 1
               /\ ret.list[1].value = <<StrV(<<"a", "|", "1">>)>>)
    /\ []((Ended /\ given = TwoSeparatorsInput)
            => /\ pc = "done" /\ Len(ret.list) = 1
               /\ ret.list[1].value
                    = <<StrV(<<"a", ",", "1">>), StrV(<<"a">>)>>)

\* C21 when the escaped flag is clear: what the code does enforce
C21_WhenFlagIsClear ==
    /\ [][(AtSeparatorInOpenGroup /\ ~escaped)
            => /\ pc' = "scan"
               /\ i' = i + 1
               /\ stack' = Append(stack, str[i + 1])
               /\ buffer' = buffer
               /\ filter' = filter]_vars
    /\ []((Ended /\ given = OtherSeparatorInput)
            => /\ pc = "done" /\ Len(ret.list) = 1
               /\ ret.list[1].value = <<StrV(<<"a", "|", "1">>)>>)
    /\ []((Ended /\ given = TwoSeparatorsInput)
            => /\ pc = "done" /\ Len(ret.list) = 1
               /\ ret.list[1].value
                    = <<StrV(<<"a", ",", "1">>), StrV(<<"a">>)>>)

\* C21: s:f:=:[a\b,c] has failed at its comma, which follows the ordinary
\* character `b` inside the open group.
C21_Witness ==
    /\ pc = "error"
    /\ given = StaleEscapeBeforeCommaInput
    /\ err.kind = "InvalidEscapedCharacter"
    /\ filter.multi
    /\ str[i] = "b" /\ str[i + 1] = ","

\* C22 (as claimed): the error raised for an unregistered type token or
\* operator token names the token as it was written (the text accumulated
\* before the colon), as the error for a field that is not allowed names the
\* field.
C22_ErrorNamesTheToken ==
    (pc = "error"
       /\ err.kind \in {"InvalidType", "InvalidOperator", "KeyNotAllowed"})
    => err.arg = stack

\* C22, what the code does: the field error names the field; the type error
\* and the operator error name the result of the failed lookup, `undefined`.
C22_ErrorNamesUndefined ==
    /\ (pc = "error" /\ err.kind = "KeyNotAllowed")
       => (err.arg = stack /\ err.arg = filter.field)
    /\ (pc = "error" /\ err.kind \in {"InvalidType", "InvalidOperator"})
       => err.arg = Undefined

\* C22: z:f:=:a has failed at its first colon with an error that names
\* `undefined`, while the token read was `z`.
C22_Witness ==
    /\ pc = "error"
    /\ given = One(ScalarClause(T_z, F_f, Op_eq, V_a))
    /\ err = Error("InvalidType", Undefined, 0)
    /\ stack = T_z

-----------------------------------------------------------------------------
(* The legacy parser (class Parser of src/src/enums/operator.enum.ts, with   *)
(* the method exec).  It has no escape character.  Its fields type, key, op  *)
(* and multi are held in `filter` (as type, field, operator and multi),      *)
(* `escaped` and `ctor` are not fields of it and never change.               *)

\* reset() of the legacy parser: the header fields become empty strings.
\* this.buffer is not among the fields it assigns.
LegacyNoFilter ==
    [type |-> <<>>, field |-> <<>>, operator |-> <<>>, multi |-> FALSE]

legacyReset ==
    /\ stack' = <<>>
    /\ filter' = LegacyNoFilter

\* Object.values(Type).some((type) => type === target)
isValidType(target) == target \in DataType

\* Object.values(Operator).some((operator) => operator === target)
isValidOperator(target) == target \in Operator

isOfTypeRange(op) == op = Op_between \/ op = Op_notBetween

isOneOfTypeRange(op) == op \in {Op_eq, Op_ne, Op_gt, Op_gte, Op_lt, Op_lte}

\* JSON.parse on a string of letters and digits: the three literals and the
\* decimal numerals without a leading zero are values, anything else is a
\* SyntaxError (ok is FALSE).
JSONParse(s) ==
    IF s = Lit_true THEN [ok |-> TRUE, v |-> BoolV(TRUE)]
    ELSE IF s = Lit_false THEN [ok |-> TRUE, v |-> BoolV(FALSE)]
    ELSE IF s = Lit_null THEN [ok |-> TRUE, v |-> NullV]
    ELSE IF s # <<>> /\ AllDigits(s) /\ (Len(s) = 1 \/ s[1] # "0")
    THEN [ok |-> TRUE, v |-> NumV(Decimal(s, 0))]
    ELSE [ok |-> FALSE, v |-> NullV]

\* The string branch.  Operator.like and Operator.notLike are not members of
\* the enum, so they are undefined and equal no operator token.
legacyTransformString(f) ==
    IF f.operator # Op_eq /\ f.operator # Op_ne
    THEN Fail("UnexpectedStringOperator", f.operator, 0)
    ELSE IF f.multi
    THEN Ok(List(f, StrVs(split(f.value, f.delimiter))))
    ELSE Ok(Raw(f))

\* The boolean branch: the value is tested under = and != only.
legacyTransformBoolean(f) ==
    IF (f.operator = Op_eq \/ f.operator = Op_ne)
       /\ f.value # Lit_true /\ f.value # Lit_false
    THEN Fail("UnexpectedBooleanValue", f.value, 0)
    ELSE IF ~JSONParse(f.value).ok
    THEN Fail("JsonSyntaxError", f.value, 0)
    ELSE Ok(Scalar(f, JSONParse(f.value).v))

\* The number branch: the value is split on the comma whatever the bracket,
\* and the result is an array even for a scalar clause.
legacyTransformNumber(f) ==
    LET nums == ToNumbers(SplitFrom(f.value, ",", <<>>))
    IN  IF isOfTypeRange(f.operator) /\ Len(nums) # 2
        THEN Fail("WrongNumberOfArguments", Undefined, Len(nums))
        ELSE IF ~isOfTypeRange(f.operator) /\ ~isOneOfTypeRange(f.operator)
        THEN Fail("InvalidOperatorForKey", f.operator, 0)
        ELSE IF \E k \in 1..Len(nums) : isNaN(nums[k])
        THEN Fail("InvalidValueTypes", Undefined, 0)
        ELSE Ok(List(f, NumVs(nums)))

\* The date branch
legacyTransformDate(f) ==
    LET dates == DateParses(SplitFrom(f.value, ",", <<>>))
    IN  IF isOfTypeRange(f.operator) /\ Len(dates) # 2
        THEN Fail("WrongNumberOfArguments", Undefined, Len(dates))
        ELSE IF ~isOfTypeRange(f.operator) /\ ~isOneOfTypeRange(f.operator)
        THEN Fail("InvalidOperatorForKey", f.operator, 0)
        ELSE IF \E k \in 1..Len(dates) : isNaN(dates[k])
        THEN Fail("InvalidValueTypes", Undefined, 0)
        ELSE Ok(List(f, NumVs(dates)))

\* The void branch: the value is tested under ! and !! only.
legacyTransformVoid(f) ==
    IF (f.operator = Op_is \/ f.operator = Op_isNot)
       /\ f.value # Lit_null /\ f.value # Lit_undefined
    THEN Fail("UnexpectedVoidValue", f.value, 0)
    ELSE IF ~JSONParse(f.value).ok
    THEN Fail("JsonSyntaxError", f.value, 0)
    ELSE Ok(Scalar(f, JSONParse(f.value).v))

\* transform(object) of the legacy parser
legacyTransform(f) ==
    IF f.type = DT_string THEN legacyTransformString(f)
    ELSE IF f.type = DT_boolean THEN legacyTransformBoolean(f)
    ELSE IF f.type = DT_number THEN legacyTransformNumber(f)
    ELSE IF f.type = DT_date THEN legacyTransformDate(f)
    ELSE IF f.type = DT_void THEN legacyTransformVoid(f)
    ELSE Ok(Raw(f))

\* What the legacy scanner never touches
LegacyFrame == UNCHANGED <<str, args, ctor, opts, calls, given, escaped>>

\* this.buffer.push(this.transform({...})); this.reset();
LegacyPushAndReset(delimiter) ==
    LET r == legacyTransform(WithValue(filter, delimiter, stack))
    IN  IF r.ok
        THEN /\ buffer' = Append(buffer, r.d)
             /\ legacyReset
             /\ Continue
        ELSE /\ Throw(r.err)
             /\ UNCHANGED <<buffer, filter, stack>>

\* this.chr === ":"
ExecColon ==
    /\ Scanning(":")
    /\ LegacyFrame
    /\ chr' = ":"
    /\ UNCHANGED buffer
    /\ IF filter.multi
       THEN /\ Throw(Error("UnbalancedGroup", Undefined, 0))
            /\ UNCHANGED <<filter, stack>>
       ELSE IF filter.type = <<>>
       THEN /\ filter' = [filter EXCEPT !.type = stack]
            /\ IF ~isValidType(stack)
               THEN Throw(Error("InvalidType", stack, 0)) /\ UNCHANGED stack
               ELSE stack' = <<>> /\ Continue
       ELSE IF filter.field = <<>>
       THEN /\ filter' = [filter EXCEPT !.field = stack]
            /\ IF ~isValidKey(opts, stack)
               THEN Throw(Error("KeyNotAllowed", stack, 0)) /\ UNCHANGED stack
               ELSE stack' = <<>> /\ Continue
       ELSE /\ filter' = [filter EXCEPT !.operator = stack]
            /\ IF ~isValidOperator(stack)
               THEN Throw(Error("InvalidOperator", stack, 0)) /\ UNCHANGED stack
               ELSE stack' = <<>> /\ Continue

\* this.chr === "[" || this.chr === "("
ExecOpen ==
    /\ \E c \in {"[", "("} : Scanning(c)
    /\ LegacyFrame
    /\ chr' = str[i + 1]
    /\ filter' = [filter EXCEPT !.multi = TRUE]
    /\ stack' = <<>>
    /\ UNCHANGED buffer
    /\ Continue

\* this.chr === "]" || this.chr === ")"
ExecClose ==
    /\ \E c \in {"]", ")"} : Scanning(c)
    /\ LegacyFrame
    /\ chr' = str[i + 1]
    /\ LegacyPushAndReset(IF str[i + 1] = ")" THEN <<"|">> ELSE <<",">>)

\* this.chr === "|" || this.chr === ","
ExecSeparator ==
    /\ \E c \in {"|", ","} : Scanning(c)
    /\ LegacyFrame
    /\ chr' = str[i + 1]
    /\ IF stack # <<>> /\ ~filter.multi
       THEN IF filter.type # <<>> /\ filter.field # <<>>
               /\ filter.operator = <<>>
            THEN /\ Throw(Error("MissingOperator", filter.type, 0))
                 /\ UNCHANGED <<buffer, filter, stack>>
            ELSE LegacyPushAndReset(Undefined)
       ELSE /\ stack' = IF filter.multi THEN Append(stack, str[i + 1]) ELSE stack
            /\ UNCHANGED <<buffer, filter>>
            /\ Continue

\* any other character, the backslash included: this.stack.push(this.chr)
ExecOther ==
    /\ pc = "scan" /\ i < Len(str)
    /\ str[i + 1] \notin {":", "[", "(", "]", ")", "|", ","}
    /\ LegacyFrame
    /\ chr' = str[i + 1]
    /\ stack' = Append(stack, str[i + 1])
    /\ UNCHANGED <<buffer, filter>>
    /\ Continue

\* After the loop: the remaining characters, and `return this.buffer`
ExecReturn ==
    /\ pc = "scan" /\ i = Len(str)
    /\ LegacyFrame
    /\ UNCHANGED <<filter, stack, chr>>
    /\ IF stack # <<>> /\ (filter.field # <<>> \/ filter.operator # <<>>)
       THEN LET r == legacyTransform(WithValue(filter, Undefined, stack))
            IN  IF r.ok
                THEN /\ buffer' = Append(buffer, r.d)
                     /\ pc' = "done"
                     /\ ret' = Returned(buffer')
                     /\ first' = Remember("done", err, ret')
                     /\ UNCHANGED <<err, i>>
                ELSE /\ Throw(r.err)
                     /\ UNCHANGED buffer
       ELSE /\ pc' = "done"
            /\ ret' = Returned(buffer)
            /\ first' = Remember("done", err, ret')
            /\ UNCHANGED <<buffer, err, i>>

\* The head of exec(str, options), up to the loop.  It assigns stack, chr and
\* opts and calls reset(); nothing assigns this.buffer.
ExecCall(in) ==
    /\ str' = Text(in)
    /\ args' = in.args
    /\ given' = in
    /\ chr' = ""
    /\ opts' = MergeOptions(in.args)
    /\ legacyReset
    /\ i' = 0 /\ pc' = "scan" /\ err' = NoError /\ ret' = NoReturn
    /\ calls' = calls + 1
    /\ UNCHANGED <<buffer, ctor, escaped, first>>

\* The inputs given to a legacy parser
LegacyPool ==
    {Input(<<c>>, <<>>, a) :
        c \in {ScalarClause(DT_string, F_f, Op_eq, V_a),
               GroupClause(DT_string, F_g, Op_ne, SquareBrackets,
                           [els |-> <<V_a, V_b>>, isep |-> <<Comma>>]),
               ScalarClause(DT_number, F_f, Op_gt, V_1),
               GroupClause(DT_number, F_f, Op_between, RoundBrackets,
                           [els |-> <<V_1, V_2>>, isep |-> <<Pipe>>]),
               ScalarClause(DT_boolean, F_f, Op_eq, Lit_true),
               ScalarClause(DT_date, F_f, Op_lt, V_2024),
               ScalarClause(DT_void, F_f, Op_is, Lit_null),
               ScalarClause(T_z, F_f, Op_eq, V_a),
               RawClause(<<DT_string, F_f>>, <<"a", ",">>)},
        a \in {NoOptions, Options({F_f})}}
    \cup {Input(<<ScalarClause(DT_string, F_f, Op_eq, V_a),
                  ScalarClause(DT_number, F_g, Op_eq, V_2)>>,
                <<Comma>>, NoOptions)}

\* new Parser(): buffer = [], stack = [], multi = false, and the header
\* fields not yet assigned
InitLegacy == Constructed(NoOptions)

\* A call of exec on an instance, new or used
Exec ==
    /\ pc # "scan"
    /\ calls < MaxCalls
    /\ \E in \in LegacyPool : ExecCall(in)

NextLegacy ==
    \/ Exec
    \/ ExecColon
    \/ ExecOpen
    \/ ExecClose
    \/ ExecSeparator
    \/ ExecOther
    \/ ExecReturn

SpecLegacy == InitLegacy /\ [][NextLegacy]_vars

\* C23: a call of the legacy exec returns the descriptors of its own input
\* and no others: a call whose input has n clauses returns at most n
\* descriptors, each carrying the field of a clause of that input.
C23_OnlyThisCallsDescriptors ==
    pc = "done" =>
        /\ Len(ret.list) <= Len(given.cl)
        /\ \A k \in 1..Len(ret.list) :
               \E c \in 1..Len(given.cl) :
                   /\ Len(given.cl[c].hdr) >= 2
                   /\ ret.list[k].field = given.cl[c].hdr[2]

\* C23, what the code does: nothing ever removes a descriptor from
\* this.buffer; over the calls made on one instance the list only grows.
C23_ListIsNeverEmptied ==
    [][/\ Len(buffer') >= Len(buffer)
       /\ \A k \in 1..Len(buffer) : buffer'[k] = buffer[k]]_vars

\* C23: the second call of exec on one instance has returned, its input was
\* one clause, and the list it returned holds two descriptors.
C23_Witness ==
    /\ pc = "done" /\ calls = 2
    /\ Len(given.cl) = 1
    /\ Len(ret.list) = 2

-----------------------------------------------------------------------------
\* C24: every descriptor of a returned list has its three header fields: a
\* registered type, a field token and a registered operator.
C24_DescriptorsHaveHeaders ==
    pc = "done" =>
        \A k \in 1..Len(ret.list) :
            /\ ret.list[k].type \in DataType
            /\ Truthy(ret.list[k].field)
            /\ ret.list[k].operator \in Operator

\* C24, what the code does guarantee: a header field that is set is a
\* registered one, an operator is never set without a type and a field, and
\* the branches of transform that test the operator (string, boolean, void,
\* and the groups of numbers and dates) let no descriptor through without one.
C24_CheckedBranchesOnly ==
    pc = "done" =>
        \A k \in 1..Len(ret.list) :
            LET d == ret.list[k]
            IN  /\ d.type = Undefined \/ d.type \in DataType
                /\ d.operator = Undefined \/ d.operator \in Operator
                /\ d.operator \in Operator =>
                       d.type \in DataType /\ Truthy(d.field)
                /\ (d.type \in {DT_string, DT_boolean, DT_void}
                    \/ (d.type \in {DT_number, DT_date} /\ d.multi))
                   => d.operator \in Operator

\* C24: the input n:f:1 has ended with a type and a field and no operator,
\* and extract has returned a number descriptor that has no operator.
C24_Witness ==
    /\ pc = "done"
    /\ str = <<"n", ":", "f", ":", "1">>
    /\ Len(ret.list) = 1
    /\ ret.list[1].type = DT_number
    /\ ret.list[1].field = F_f
    /\ ret.list[1].operator = Undefined
    /\ ret.list[1].value = <<NumV(1)>>

-----------------------------------------------------------------------------
\* The end of the input is reached with characters left in the buffer.
AtEndWithBufferedText == pc = "scan" /\ i = Len(str) /\ stack # <<>>

\* C25: trailing text is never dropped in silence: when the end of the input
\* is reached with a non-empty buffer, the call fails or appends one
\* descriptor to the output list.
C25_TrailingTextIsNotDiscarded ==
    [][AtEndWithBufferedText =>
           \/ pc' = "error"
           \/ pc' = "done" /\ Len(buffer') = Len(buffer) + 1]_vars

\* C25, what the code does: the buffered text is finalised (or refused) when
\* a field or an operator is set, and otherwise the call returns the list as
\* it stands, the text left in the buffer.
C25_DiscardedWithoutFieldAndOperator ==
    [][AtEndWithBufferedText =>
           IF Truthy(filter.field) \/ Truthy(filter.operator)
           THEN \/ pc' = "error"
                \/ /\ pc' = "done"
                   /\ Len(buffer') = Len(buffer) + 1
                   /\ ret' = Returned(buffer')
           ELSE /\ pc' = "done"
                /\ buffer' = buffer
                /\ ret' = Returned(buffer)
                /\ stack' = stack]_vars

\* C25: the input s:abc has been read to its end and the call has returned
\* the empty list, the text abc still in the buffer.
C25_Witness ==
    /\ pc = "done"
    /\ str = <<"s", ":", "a", "b", "c">>
    /\ stack = <<"a", "b", "c">>
    /\ ret = Returned(<<>>)

-----------------------------------------------------------------------------
\* The step appends a descriptor of declared type t to the output list.
Finalises(t) == Len(buffer') = Len(buffer) + 1 /\ filter.type = t

\* The tokens that the appended descriptor's value was converted from
FinalisedTokens == split(stack, buffer'[Len(buffer')].delimiter)

\* C26: every element of an accepted number value comes from a non-empty
\* token: no number descriptor is appended when one of the tokens of its
\* value is the empty string.
C26_NoNumberFromEmptyToken ==
    [][Finalises(DT_number) =>
           \A k \in 1..Len(FinalisedTokens) : FinalisedTokens[k] # <<>>]_vars

\* C26, what the code does: an empty token of a number value is converted to
\* the number 0 and accepted; an empty token of a date value is refused.
C26_EmptyTokenIsZero ==
    [][/\ Finalises(DT_number) =>
              /\ Len(buffer'[Len(buffer')].value) = Len(FinalisedTokens)
              /\ \A k \in 1..Len(FinalisedTokens) :
                     FinalisedTokens[k] = <<>> =>
                         buffer'[Len(buffer')].value[k] = NumV(0)
       /\ Finalises(DT_date) =>
              \A k \in 1..Len(FinalisedTokens) : FinalisedTokens[k] # <<>>]_vars

\* C26: the input n:f:=:[] has been accepted, and the value of its descriptor
\* is the list of the one number 0.
C26_Witness ==
    /\ pc = "done"
    /\ str = <<"n", ":", "f", ":", "=", ":", "[", "]">>
    /\ Len(ret.list) = 1
    /\ ret.list[1].shape = "list"
    /\ ret.list[1].value = <<NumV(0)>>

-----------------------------------------------------------------------------
\* The character to be examined is a separator, outside a group, and the
\* buffer is empty.
AtTopLevelSeparator ==
    /\ pc = "scan" /\ i < Len(str)
    /\ str[i + 1] \in {",", "|"}
    /\ ~filter.multi
    /\ stack = <<>>

\* C27: a separator read outside a group while the buffer is empty and the
\* escape flag clear changes nothing but the position: the output list, the
\* header fields, the buffer and the flags stay as they are and no error is
\* raised.  With an empty buffer the flag is set only when the separator
\* comes directly after a backslash.  So an input of two clauses with runs of
\* separators before, between and after them yields the descriptors of the
\* two clauses and nothing else.
C27_TopLevelSeparatorIsNoOp ==
    [][/\ (AtTopLevelSeparator /\ ~escaped) =>
              /\ buffer' = buffer
              /\ filter' = filter
              /\ stack' = stack
              /\ escaped' = escaped
              /\ err' = err
              /\ pc' = "scan"
              /\ i' = i + 1
       /\ (AtTopLevelSeparator /\ escaped) => (i >= 1 /\ str[i] = "\\")
       /\ (given \in SeparatorInputs /\ pc' \in {"done", "error"}) =>
              /\ pc' = "done"
              /\ ret'.list = <<ExpectedOf(given.cl[2]),
                               ExpectedOf(given.cl[3])>>]_vars

\* C27: the input |,n:g:><:[1,2],|s:f:<>:(a|b),, has been read, with
\* separators leading, after the closed groups, repeated and trailing, and
\* the call has returned the two descriptors of its two clauses.
C27_Witness ==
    /\ pc = "done"
    /\ given = Input(<<NoClause,
                       GroupClause(DT_number, F_g, Op_between, SquareBrackets,
                                   [els |-> <<V_1, V_2>>, isep |-> <<Comma>>]),
                       GroupClause(DT_string, F_f, Op_in, RoundBrackets,
                                   [els |-> <<V_a, V_b>>, isep |-> <<Pipe>>])>>,
                     << <<"|", ",">>, <<",", "|">>, <<",", ",">> >>, NoOptions)
    /\ Len(ret.list) = 2
    /\ ret.list[1].value = <<NumV(1), NumV(2)>>
    /\ ret.list[2].value = <<StrV(V_a), StrV(V_b)>>

====
